---- MODULE Spec2Model ----
(***************************************************************************)
(* Model of src/main.py: the coffee-menu Flask service with its request    *)
(* hooks (log_request / log_response), the log shipper                     *)
(* (send_log_to_signoz), the trace identity helpers and the CRUD handlers  *)
(* on the module-level list `coffees`.                                     *)
(*                                                                         *)
(* Python objects are modelled with reference identity: `heap` holds the   *)
(* dicts ever created (index = reference), `coffees` is the list of        *)
(* references.  Prices are the source's prices times ten (2.5 -> 25).      *)
(* The server handles every request in a thread of its own; `inflight` is  *)
(* the bag of the request contexts being handled.  A request walks through *)
(* before_request, its view function and after_request; a view function is *)
(* cut into steps wherever another thread can run between two of its reads *)
(* or writes of shared state.                                              *)
(***************************************************************************)
EXTENDS Integers, Sequences, FiniteSets, Bags, TLC

\* ---------------------------------------------------------------- bounds
\* requests received by the threaded server, any of which may overlap
MaxRequests == 2
\* requests received by the server that handles one request at a time
MaxSerialRequests == 3

\* ------------------------------------------------------- program constants
TraceIdWidth == 32
SpanIdWidth == 16
DefaultSeverity == 4
TraceFlagsSampled == 1

VARIABLES
  coffees,           \* the module-level list: sequence of references into heap
  heap,              \* every dict created so far: sequence of [id, name, price]
  requests_counter,  \* the http_requests_total counter
  collector,         \* how the collector endpoint answers during this run
  debug,             \* app.debug, "on" when run through app.run(debug=True);
                     \* settled ("unread" before) the first time it is read
  started,           \* number of requests received
  inflight           \* bag of the request contexts being handled

shared == <<coffees, heap, requests_counter>>
env == <<collector, debug>>
vars == <<shared, env, started, inflight>>

\* ------------------------------------------------------------ the menu
SeedMenu ==
  << [id |-> 1, name |-> "Espresso", price |-> 25],
     [id |-> 2, name |-> "Latte", price |-> 35],
     [id |-> 3, name |-> "Cappuccino", price |-> 30],
     [id |-> 4, name |-> "Chai", price |-> 15] >>

\* [c for c in coffees if pred]: the references of s that satisfy keep
RECURSIVE Filter(_, _, _)
Filter(s, h, cid) ==
  IF s = <<>> THEN <<>>
  ELSE IF h[s[1]].id # cid
       THEN <<s[1]>> \o Filter(Tail(s), h, cid)
       ELSE Filter(Tail(s), h, cid)

\* next((c for c in coffees if c["id"] == coffee_id), None): first match, 0 for None
RECURSIVE FindFirst(_, _, _)
FindFirst(s, h, cid) ==
  IF s = <<>> THEN 0
  ELSE IF h[s[1]].id = cid THEN s[1] ELSE FindFirst(Tail(s), h, cid)

\* jsonify of the list / of one dict: a snapshot of the values
Snapshot(s, h) == [i \in 1..Len(s) |-> h[s[i]]]

\* ------------------------------------------------------------ requests
Kinds == {"get_coffees", "order_coffee", "add_coffee", "get_coffee",
          "update_coffee", "delete_coffee", "metrics"}

Method(k) ==
  CASE k \in {"get_coffees", "get_coffee", "metrics"} -> "GET"
    [] k \in {"order_coffee", "add_coffee"} -> "POST"
    [] k = "update_coffee" -> "PUT"
    [] k = "delete_coffee" -> "DELETE"
    [] OTHER -> ""

Path(k) ==
  CASE k \in {"get_coffees", "add_coffee"} -> "/coffees"
    [] k \in {"get_coffee", "update_coffee", "delete_coffee"} -> "/coffees/<id>"
    [] k = "order_coffee" -> "/order"
    [] k = "metrics" -> "/metrics"
    [] OTHER -> ""

NoData == [keys |-> {}, name |-> "", price |-> 0]

\* JSON bodies sent by clients: with name only, with price only, with both
Bodies ==
  { [keys |-> {"name"}, name |-> "Mocha", price |-> 0],
    [keys |-> {"price"}, name |-> "", price |-> 40],
    [keys |-> {"name", "price"}, name |-> "Mocha", price |-> 40] }

HasId(k) == k \in {"get_coffee", "update_coffee", "delete_coffee", "order_coffee"}
HasBody(k) == k \in {"add_coffee", "update_coffee"}

\* ids clients ask for: every route that takes an id is asked for the first
\* seeded id, which is absent once it has been deleted; DELETE is also asked
\* for the last seeded id
IdArgs(k) ==
  CASE k = "delete_coffee" -> {1, 4}
    [] HasId(k) -> {1}
    [] OTHER -> {0}

\* bodies clients send with a request of kind k
BodyArgs(k) == IF HasBody(k) THEN Bodies ELSE {NoData}

\* ------------------------------------------------------------ identity
INVALID_SPAN == [trace_id |-> 0, span_id |-> 0]

HexDigits == <<"0", "1", "2", "3", "4", "5", "6", "7",
               "8", "9", "a", "b", "c", "d", "e", "f">>

\* format(n, '0<w>x') for 0 <= n < 16^w
RECURSIVE Format(_, _)
Format(n, w) ==
  IF w = 0 THEN "" ELSE Format(n \div 16, w - 1) \o HexDigits[(n % 16) + 1]

\* trace.get_current_span() called while handling r: the span of r's own context
get_current_span(r) == r.current_span

\* get_current_span() is never falsy (without a span it is the invalid span,
\* whose ids are 0), so the formatted branch is the one taken
get_trace_id(span) == Format(span.trace_id, TraceIdWidth)

\* get_span_id with the trace id formatted in place of the span id
get_span_id_OfTraceId(span) == Format(span.trace_id, SpanIdWidth)

get_span_id(span) == Format(span.span_id, SpanIdWidth)

\* tracer.start_as_current_span(name) with no parent: a new trace.  The
\* generator draws the ids at random from 2^128 and 2^64 values, none of them
\* 0; here they are the least ones that no request being handled carries
NewSpan ==
  LET used == {r.handler_span.trace_id : r \in BagToSet(inflight)}
      n == CHOOSE i \in 0..Cardinality(used) :
             /\ 2 * i + 1 \notin used
             /\ \A j \in 0..(i - 1) : 2 * j + 1 \in used
  IN [trace_id |-> 2 * n + 1, span_id |-> 2 * n + 2]

\* ------------------------------------------------------------ log shipper
severity_map(level) ==
  CASE level = "DEBUG" -> 1
    [] level = "INFO" -> 4
    [] level = "WARN" -> 8
    [] level = "ERROR" -> 16
    [] level = "CRITICAL" -> 24
    [] OTHER -> DefaultSeverity

log_entry(r, span, level, message) ==
  [ trace_id |-> get_trace_id(span),
    span_id |-> get_span_id(span),
    trace_flags |-> TraceFlagsSampled,
    severity_text |-> level,
    severity_number |-> severity_map(level),
    method |-> Method(r.kind),
    path |-> Path(r.kind),
    message |-> message ]

CollectorStates == {"ok", "unreachable", "rejecting"}

\* requests.post(...) followed by response.raise_for_status()
PostOutcome ==
  CASE collector = "ok" -> "ok"
    [] collector = "unreachable" -> "ConnectionError"
    [] collector = "rejecting" -> "HTTPError"

\* an except clause that catches transport errors only
Caught_TransportOnly == {"ConnectionError"}

\* the exception classes `except requests.exceptions.RequestException` catches
Caught == {"ConnectionError", "HTTPError"}

\* does send_log_to_signoz raise to its caller
ShipRaises == PostOutcome # "ok" /\ PostOutcome \notin Caught

\* number of requests.post calls one call of send_log_to_signoz makes
PostAttempts == 1

\* send_log_to_signoz(level, message) called for request r while `span` is
\* current: r with the entry built, the post made and the error line written
send_log_to_signoz(r, span, level, message) ==
  [r EXCEPT !.shipped = Append(@, log_entry(r, span, level, message)),
            !.posts = @ + PostAttempts,
            !.local_errors = IF PostOutcome \in Caught THEN @ + 1 ELSE @]

Msg(text, detail) == [text |-> text, detail |-> detail]

\* a request context as the framework creates it
NewRequest(k, cid, d) ==
  [ pc |-> k, kind |-> k, coffee_id |-> cid, data |-> d,
    current_span |-> INVALID_SPAN, handler_span |-> INVALID_SPAN,
    new_coffee |-> 0, coffee |-> 0, filtered |-> <<>>, half |-> FALSE,
    from_error_handler |-> FALSE,
    status |-> 0, body |-> <<>>, metric |-> 0,
    shipped |-> <<>>, posts |-> 0, local_errors |-> 0 ]

Requests == BagToSet(inflight)

\* ------------------------------------------------------------ initial state
Init ==
  /\ heap = SeedMenu
  /\ coffees = <<1, 2, 3, 4>>
  /\ requests_counter = 0
  /\ collector \in CollectorStates
  /\ debug = "unread"
  /\ started = 0
  /\ inflight = EmptyBag

\* ------------------------------------------------------------ the framework
\* request r goes on as r2
Becomes(r, r2) == inflight' = (inflight (-) SetToBag({r})) (+) SetToBag({r2})

\* where control goes after a call of the shipper: on, or into the exception path
After(next) == IF ShipRaises THEN "raised" ELSE next

\* @app.before_request, run on the new request context before it is dispatched
\* to its view function
log_request(r) ==
  /\ inflight' = inflight (+) SetToBag({
        [send_log_to_signoz(r, get_current_span(r), "INFO", Msg("Incoming request", 0))
           EXCEPT !.pc = After(r.kind)] })
  /\ UNCHANGED <<shared, env>>

\* a request arrives
Arrive ==
  /\ \E k \in Kinds :
       \E cid \in IdArgs(k) :
         \E d \in BodyArgs(k) :
           log_request(NewRequest(k, cid, d))
  /\ started' = started + 1

\* the threaded server takes a request whatever else it is handling
Begin ==
  /\ started < MaxRequests
  /\ Arrive

\* a server that handles one request at a time takes the next when it is free
SerialBegin ==
  /\ started < MaxSerialRequests
  /\ inflight = EmptyBag
  /\ Arrive

\* r after a step that called the shipper inside a `with` block: going on to
\* `next` with `span` current, or thrown out of the block
InSpan(r, span, next) ==
  [r EXCEPT !.pc = After(next),
            !.current_span = IF ShipRaises THEN INVALID_SPAN ELSE span]

\* r after a step that called the shipper and then returned (status, body) out
\* of its `with` block
Returned(r, status, body) ==
  IF ShipRaises
  THEN [r EXCEPT !.pc = "raised", !.current_span = INVALID_SPAN]
  ELSE [r EXCEPT !.pc = "after_request", !.current_span = INVALID_SPAN,
                 !.status = status, !.body = body]

\* @app.after_request; an exception raised while finalizing an error response
\* is logged by the framework and the error response is sent as it is
log_response(r) ==
  /\ r.pc = "after_request"
  /\ Becomes(r, [send_log_to_signoz(r, get_current_span(r), "INFO",
                                    Msg("Response", r.status))
                   EXCEPT !.pc = IF r.from_error_handler THEN "sent" ELSE After("sent")])
  /\ UNCHANGED <<shared, env, started>>

\* Flask.handle_exception for an exception that is not an HTTPException: with
\* app.debug the exception is re-raised to the WSGI server, whose debugger
\* answers 500 and no after_request function runs; otherwise the 500 response
\* is finalized, after_request functions included
handle_exception(r) ==
  /\ r.pc = "raised"
  /\ debug' \in (IF debug = "unread" THEN {"on", "off"} ELSE {debug})
  /\ Becomes(r, [r EXCEPT !.status = 500, !.body = <<>>,
                          !.from_error_handler = TRUE,
                          !.pc = IF debug' = "on" THEN "sent" ELSE "after_request"])
  /\ UNCHANGED <<shared, collector, started>>

\* the response has gone to the client and the request context is dropped
Release(r) ==
  /\ r.pc = "sent"
  /\ inflight' = inflight (-) SetToBag({r})
  /\ UNCHANGED <<shared, env, started>>

\* r after `with tracer.start_as_current_span(name)` is entered
StartSpan(r) == [r EXCEPT !.current_span = NewSpan, !.handler_span = NewSpan]

\* ------------------------------------------------------------ view functions
\* GET /coffees, lines 113-114
get_coffees(r) ==
  /\ r.pc = "get_coffees"
  /\ Becomes(r, InSpan(send_log_to_signoz(StartSpan(r), NewSpan, "INFO",
                                          Msg("Fetching all coffees", 0)),
                       NewSpan, "get_coffees_return"))
  /\ UNCHANGED <<shared, env, started>>

\* GET /coffees, line 115
get_coffees_return(r) ==
  /\ r.pc = "get_coffees_return"
  /\ Becomes(r, [r EXCEPT !.pc = "after_request", !.current_span = INVALID_SPAN,
                          !.status = 200, !.body = Snapshot(coffees, heap)])
  /\ UNCHANGED <<shared, env, started>>

\* POST /order, lines 120-131
order_coffee(r) ==
  /\ r.pc = "order_coffee"
  /\ LET coffee == FindFirst(coffees, heap, r.coffee_id) IN
       IF coffee = 0
       THEN Becomes(r, [r EXCEPT !.pc = "after_request", !.status = 404])
       ELSE Becomes(r, InSpan(send_log_to_signoz([StartSpan(r) EXCEPT !.coffee = coffee],
                                                 NewSpan, "WARN",
                                                 Msg("Ordered coffee", heap[coffee].id)),
                              NewSpan, "order_coffee_return"))
  /\ UNCHANGED <<shared, env, started>>

\* POST /order, line 132
order_coffee_return(r) ==
  /\ r.pc = "order_coffee_return"
  /\ Becomes(r, [r EXCEPT !.pc = "after_request", !.current_span = INVALID_SPAN,
                          !.status = 200])
  /\ UNCHANGED <<shared, env, started>>

\* the dict of line 138 with the id taken as the count itself
NewCoffee_IdIsCount(d) == [id |-> Len(coffees), name |-> d.name, price |-> d.price]

\* the dict built at line 138 from the body d
NewCoffee(d) == [id |-> Len(coffees) + 1, name |-> d.name, price |-> d.price]

\* POST /coffees, lines 136-138; data["name"] or data["price"] of a body
\* without that key raises KeyError, which leaves the `with` block
add_coffee(r) ==
  /\ r.pc = "add_coffee"
  /\ IF {"name", "price"} \subseteq r.data.keys
     THEN /\ heap' = Append(heap, NewCoffee(r.data))
          /\ Becomes(r, [StartSpan(r) EXCEPT !.new_coffee = Len(heap) + 1,
                                             !.pc = "add_coffee_append"])
     ELSE /\ Becomes(r, [StartSpan(r) EXCEPT !.current_span = INVALID_SPAN,
                                             !.pc = "raised"])
          /\ UNCHANGED heap
  /\ UNCHANGED <<coffees, requests_counter, env, started>>

\* POST /coffees, line 139
add_coffee_append(r) ==
  /\ r.pc = "add_coffee_append"
  /\ coffees' = Append(coffees, r.new_coffee)
  /\ Becomes(r, [r EXCEPT !.pc = "add_coffee_return"])
  /\ UNCHANGED <<heap, requests_counter, env, started>>

\* POST /coffees, lines 140-141
add_coffee_return(r) ==
  /\ r.pc = "add_coffee_return"
  /\ Becomes(r, Returned(send_log_to_signoz(r, get_current_span(r), "INFO",
                                            Msg("Added coffee", heap[r.new_coffee].id)),
                         201, <<heap[r.new_coffee]>>))
  /\ UNCHANGED <<shared, env, started>>

\* GET /coffees/<id>, lines 145-150
get_coffee(r) ==
  /\ r.pc = "get_coffee"
  /\ LET coffee == FindFirst(coffees, heap, r.coffee_id) IN
       IF coffee = 0
       THEN Becomes(r, Returned(send_log_to_signoz(StartSpan(r), NewSpan, "INFO",
                                                   Msg("Coffee ID not found", r.coffee_id)),
                                404, <<>>))
       ELSE Becomes(r, [StartSpan(r) EXCEPT !.pc = "after_request",
                                            !.current_span = INVALID_SPAN,
                                            !.coffee = coffee,
                                            !.status = 200, !.body = <<heap[coffee]>>])
  /\ UNCHANGED <<shared, env, started>>

\* line 159 without the fallback to the prior name
MergedName_NoFallback(d, old) == d.name

\* the value line 159 stores in coffee["name"]
MergedName(d, old) == IF "name" \in d.keys THEN d.name ELSE old

\* the value line 160 stores in coffee["price"]
MergedPrice(d, old) == IF "price" \in d.keys THEN d.price ELSE old

\* PUT /coffees/<id>, lines 154-157
update_coffee(r) ==
  /\ r.pc = "update_coffee"
  /\ LET coffee == FindFirst(coffees, heap, r.coffee_id) IN
       IF coffee = 0
       THEN Becomes(r, [StartSpan(r) EXCEPT !.pc = "after_request",
                                            !.current_span = INVALID_SPAN,
                                            !.status = 404])
       ELSE Becomes(r, [StartSpan(r) EXCEPT !.pc = "update_coffee_name",
                                            !.coffee = coffee])
  /\ UNCHANGED <<shared, env, started>>

\* PUT /coffees/<id>, lines 158-159; `half` notes that the name now differs
\* from the one found and that line 160 has yet to change the price
update_coffee_name(r) ==
  /\ r.pc = "update_coffee_name"
  /\ heap' = [heap EXCEPT ![r.coffee].name = MergedName(r.data, @)]
  /\ Becomes(r, [r EXCEPT !.pc = "update_coffee_price",
                          !.half = /\ MergedName(r.data, heap[r.coffee].name)
                                        # heap[r.coffee].name
                                   /\ MergedPrice(r.data, heap[r.coffee].price)
                                        # heap[r.coffee].price])
  /\ UNCHANGED <<coffees, requests_counter, env, started>>

\* PUT /coffees/<id>, lines 160-162
update_coffee_price(r) ==
  /\ r.pc = "update_coffee_price"
  /\ heap' = [heap EXCEPT ![r.coffee].price = MergedPrice(r.data, @)]
  /\ Becomes(r, Returned(send_log_to_signoz([r EXCEPT !.half = FALSE],
                                            get_current_span(r), "INFO",
                                            Msg("Updated coffee", heap[r.coffee].id)),
                         200, <<heap'[r.coffee]>>))
  /\ UNCHANGED <<coffees, requests_counter, env, started>>

\* DELETE /coffees/<id>, line 168, the list comprehension
delete_coffee(r) ==
  /\ r.pc = "delete_coffee"
  /\ Becomes(r, [StartSpan(r) EXCEPT !.pc = "delete_coffee_assign",
                                     !.filtered = Filter(coffees, heap, r.coffee_id)])
  /\ UNCHANGED <<shared, env, started>>

\* DELETE /coffees/<id>, line 168, the assignment to the global, and lines 169-170
delete_coffee_assign(r) ==
  /\ r.pc = "delete_coffee_assign"
  /\ coffees' = r.filtered
  /\ Becomes(r, Returned(send_log_to_signoz(r, get_current_span(r), "INFO",
                                            Msg("Deleted coffee ID", r.coffee_id)),
                         200, <<>>))
  /\ UNCHANGED <<heap, requests_counter, env, started>>

\* GET /metrics: generate_latest() renders the counter
metrics(r) ==
  /\ r.pc = "metrics"
  /\ Becomes(r, [r EXCEPT !.pc = "after_request", !.status = 200,
                          !.metric = requests_counter])
  /\ UNCHANGED <<shared, env, started>>

\* ------------------------------------------------------------ specifications
Step(r) ==
  \/ get_coffees(r)
  \/ get_coffees_return(r)
  \/ order_coffee(r)
  \/ order_coffee_return(r)
  \/ add_coffee(r)
  \/ add_coffee_append(r)
  \/ add_coffee_return(r)
  \/ get_coffee(r)
  \/ update_coffee(r)
  \/ update_coffee_name(r)
  \/ update_coffee_price(r)
  \/ delete_coffee(r)
  \/ delete_coffee_assign(r)
  \/ metrics(r)
  \/ handle_exception(r)
  \/ log_response(r)
  \/ Release(r)

Next ==
  \/ Begin
  \/ \E r \in Requests : Step(r)

Spec == Init /\ [][Next]_vars

SerialNext ==
  \/ SerialBegin
  \/ \E r \in Requests : Step(r)

SerialSpec == Init /\ [][SerialNext]_vars

\* ------------------------------------------------------------ the claims
HasResponse(r) == r.pc \in {"after_request", "sent"}

CompleteBody(d) == {"name", "price"} \subseteq d.keys

\* C1: the pre-hook counts every request: the counter /metrics renders equals
\* the number of requests received.
C1_CounterCountsRequests == requests_counter = started

\* C2: a valid create returns an item whose id is the number of items before
\* the create plus one, appends exactly that item as the last one and leaves
\* the earlier items and their order as they were.
C2_CreateAppendsNextId ==
  [][ /\ \A r \in Requests :
           /\ add_coffee_append(r) =>
                /\ Len(coffees') = Len(coffees) + 1
                /\ SubSeq(coffees', 1, Len(coffees)) = coffees
                /\ heap' = heap
                /\ heap[coffees'[Len(coffees')]] =
                     [id |-> Len(coffees) + 1, name |-> r.data.name, price |-> r.data.price]
           /\ (add_coffee(r) \/ add_coffee_return(r)) => coffees' = coffees
      /\ \A r \in BagToSet(inflight') :
           r.kind = "add_coffee" /\ r.status = 201 =>
             /\ r.body = <<heap'[coffees'[Len(coffees')]]>>
             /\ r.body[1].id = Len(coffees') ]_vars

C2_Witness ==
  \E r \in Requests : r.kind = "add_coffee" /\ r.status = 201 /\ r.pc = "sent"

\* C3: ids are unique and never reused: no two items ever created, still in
\* the menu or deleted, have the same id.
C3_IdsUniqueNeverReused ==
  \A i, j \in 1..Len(heap) : i # j => heap[i].id # heap[j].id

\* C4: deleting a present id removes exactly one item and leaves the rest in
\* order; deleting an absent id (the same id a second time) answers 200 and
\* leaves the menu as it is.
C4_DeleteRemovesExactlyOne ==
  [][ \A r \in Requests :
        delete_coffee_assign(r) =>
          LET hit == FindFirst(coffees, heap, r.coffee_id) IN
            /\ hit # 0 =>
                 /\ Len(coffees') = Len(coffees) - 1
                 /\ \E i \in 1..Len(coffees) :
                      /\ coffees[i] = hit
                      /\ coffees' = SubSeq(coffees, 1, i - 1)
                                      \o SubSeq(coffees, i + 1, Len(coffees))
            /\ hit = 0 => coffees' = coffees
            /\ \A q \in BagToSet(inflight') : q.kind = "delete_coffee" => q.status = 200 ]_vars

\* C5: a create whose body lacks name or price is answered 400 and leaves the
\* menu as it was.
C5_MissingFieldIs400 ==
  \A r \in Requests :
    r.kind = "add_coffee" /\ ~CompleteBody(r.data) /\ HasResponse(r) => r.status = 400

\* the status the view function of r answers when every log delivery succeeds
StatusOnDelivery(r) ==
  CASE r.kind \in {"get_coffees", "metrics", "delete_coffee"} -> 200
    [] r.kind \in {"order_coffee", "get_coffee", "update_coffee"} ->
         IF r.coffee = 0 THEN 404 ELSE 200
    [] r.kind = "add_coffee" -> IF CompleteBody(r.data) THEN 201 ELSE 500

\* C6: every call of the shipper makes exactly one post; a failed delivery is
\* written to the local log and swallowed: the shipper never raises, and the
\* response is the one produced when delivery succeeds.
C6_ShipOnceNeverRaises ==
  \A r \in Requests :
    /\ r.posts = Len(r.shipped)
    /\ r.local_errors = IF collector = "ok" THEN 0 ELSE Len(r.shipped)
    /\ r.pc = "raised" => r.kind = "add_coffee" /\ ~CompleteBody(r.data)
    /\ HasResponse(r) =>
         /\ r.status = StatusOnDelivery(r)
         /\ (r.body = <<>>) = (r.kind \in {"metrics", "delete_coffee", "order_coffee"}
                                 \/ r.status \in {404, 500})

C6_Witness ==
  \E r \in Requests :
    /\ collector # "ok"
    /\ r.pc = "sent"
    /\ r.status = 200
    /\ r.kind = "update_coffee"
    /\ r.local_errors = 3

IsHookEntry(e) == e.message.text \in {"Incoming request", "Response"}

\* C7: whatever the route and the outcome, the first entry shipped for a
\* request is the pre-hook's, and when the response is sent the last one is
\* the post-hook's "Response: <status>", with the handler's entries between.
C7_HooksBracketHandler ==
  \A r \in Requests :
    /\ Len(r.shipped) >= 1
    /\ r.shipped[1].message = Msg("Incoming request", 0)
    /\ \A i \in 2..Len(r.shipped) : r.shipped[i].message.text # "Incoming request"
    /\ r.pc = "sent" =>
         /\ Len(r.shipped) >= 2
         /\ r.shipped[Len(r.shipped)].message = Msg("Response", r.status)
         /\ \A i \in 2..(Len(r.shipped) - 1) : ~IsHookEntry(r.shipped[i])
    /\ r.pc # "sent" => \A i \in 1..Len(r.shipped) : r.shipped[i].message.text # "Response"

\* C8: an entry shipped inside the view function's span carries that span's
\* trace id and span id, which no other request being handled carries; an
\* entry shipped by a hook, outside any span, carries the all-zero ids.
C8_EntriesCarrySpanIds ==
  \A r \in Requests :
    \A i \in 1..Len(r.shipped) :
      LET e == r.shipped[i] IN
        IF IsHookEntry(e)
        THEN /\ e.trace_id = "00000000000000000000000000000000"
             /\ e.span_id = "0000000000000000"
        ELSE /\ e.trace_id = Format(r.handler_span.trace_id, 32)
             /\ e.span_id = Format(r.handler_span.span_id, 16)
             /\ e.trace_id # "00000000000000000000000000000000"
             /\ e.span_id # "0000000000000000"
             /\ CopiesIn(r, inflight) = 1
             /\ \A q \in Requests \ {r} :
                  \A j \in 1..Len(q.shipped) :
                    /\ q.shipped[j].trace_id # e.trace_id
                    /\ q.shipped[j].span_id # e.span_id

C8_Witness ==
  \E r, q \in Requests :
    /\ r # q
    /\ r.pc = "sent" /\ Len(r.shipped) = 3
    /\ q.pc = "sent" /\ Len(q.shipped) = 3

\* C9: an update with only price changes the price and keeps the name, with
\* only name changes the name and keeps the price; the id, the position and
\* every other item stay as they were; an update of an absent id is answered
\* 404 and changes nothing.
C9_UpdateMergesFields ==
  [][ \A r \in Requests :
        /\ update_coffee(r) =>
             /\ coffees' = coffees
             /\ heap' = heap
             /\ FindFirst(coffees, heap, r.coffee_id) = 0 =>
                  \A q \in BagToSet(inflight') : q.status = 404
        /\ update_coffee_name(r) =>
             /\ coffees' = coffees
             /\ heap' = [heap EXCEPT ![r.coffee].name =
                           IF "name" \in r.data.keys THEN r.data.name ELSE @]
        /\ update_coffee_price(r) =>
             /\ coffees' = coffees
             /\ heap' = [heap EXCEPT ![r.coffee].price =
                           IF "price" \in r.data.keys THEN r.data.price ELSE @]
             /\ \A q \in BagToSet(inflight') : q.status = 200 /\ q.body = <<heap'[r.coffee]>> ]_vars

C9_Witness ==
  \E r \in Requests :
    /\ r.kind = "update_coffee"
    /\ r.data.keys = {"price"}
    /\ r.pc = "sent"
    /\ r.status = 200
    /\ r.body[1].price = r.data.price
    /\ r.body[1].name # "Mocha"

\* the elements of a sequence
Range(s) == {s[i] : i \in 1..Len(s)}

\* the items an update has given their new name and not yet their new price
HalfUpdated == {q.coffee : q \in {x \in Requests : x.pc = "update_coffee_price" /\ x.half}}

\* C10: create, update and delete are atomic for the other requests: nobody
\* reads an item with one of an update's two fields applied, and a delete
\* takes out of the menu only items with its id and puts none back, so that
\* no completed create or delete is lost.
C10_TransitionsAtomic ==
  [][ \A r \in Requests :
        /\ delete_coffee_assign(r) =>
             /\ \A x \in Range(coffees) \ Range(coffees') : heap[x].id = r.coffee_id
             /\ Range(coffees') \subseteq Range(coffees)
        /\ get_coffee(r) => FindFirst(coffees, heap, r.coffee_id) \notin HalfUpdated
        /\ get_coffees_return(r) => Range(coffees) \cap HalfUpdated = {} ]_vars

====
